---- MODULE Spec2Model ----
(***************************************************************************)
(* Document-state reconciliation and consistency verification of the       *)
(* conversational document factory: the block parser (lib/utils.ts), the   *)
(* session page's document store (app/session/[id]/page.tsx), the chat     *)
(* generation orchestrator (components/ChatPanel.tsx), the verifier panel  *)
(* (components/VerifierPanel.tsx) and session persistence (lib/storage).   *)
(*                                                                         *)
(* Text is a sequence of one-character strings.  A React callback is the   *)
(* record of the values its closure captured at the render that created    *)
(* it; every action ends with the render React performs for the state it   *)
(* changed, which re-creates the callbacks whose dependencies changed.     *)
(***************************************************************************)
EXTENDS Integers, Sequences, FiniteSets, TLC

\* ------------------------------------------------------------------ text

Min(S) == CHOOSE x \in S : \A y \in S : x <= y

\* JavaScript white space, restricted to the characters the model's texts use.
IsSpace(c) == c \in {" ", "\n"}

\* String.prototype.startsWith at an offset: p occurs in t at position i.
StartsWithAt(t, i, p) ==
    /\ i >= 1
    /\ i + Len(p) - 1 <= Len(t)
    /\ \A k \in 1..Len(p) : t[i + k - 1] = p[k]

\* String.prototype.trim
Trim(s) ==
    LET keep == {i \in 1..Len(s) : ~IsSpace(s[i])}
    IN  IF keep = {} THEN <<>>
        ELSE SubSeq(s, Min(keep), CHOOSE x \in keep : \A y \in keep : y <= x)

\* The first position j >= i of t holding a character of stop, Len(t)+1 if none.
FirstAt(t, i, stop) ==
    LET c == {j \in i..Len(t) : t[j] \in stop}
    IN  IF c = {} THEN Len(t) + 1 ELSE Min(c)

Fence == <<"~", "~", "~">>
DocOpen == <<"~", "~", "~", "d", "o", "c", ":">>
ImageOpen == <<"~", "~", "~", "i", "m", "a", "g", "e", ":">>
IssuesOpen == <<"~", "~", "~", "i", "s", "s", "u", "e", "s">>
SummaryOpen == <<"~", "~", "~", "s", "u", "m", "m", "a", "r", "y">>

\* A faulty variant of FindFence: the last closing fence (a greedy content).
FindFenceLast(t, i) ==
    LET c == {j \in i..Len(t) : StartsWithAt(t, j, Fence)}
    IN  IF c = {} THEN 0 ELSE CHOOSE x \in c : \A y \in c : y <= x

\* The first position j >= i of t where the closing fence ~~~ starts, 0 if none
\* (the lazy [\s\S]*? followed by ~~~).
FindFence(t, i) ==
    LET c == {j \in i..Len(t) : StartsWithAt(t, j, Fence)}
    IN  IF c = {} THEN 0 ELSE Min(c)

\* ------------------------------------------------- documents (a JS record)

\* Record<string,string> keeps the insertion order of its keys: a sequence of
\* [key, value] entries with distinct keys.
DocKeys(docs) == {docs[i].key : i \in 1..Len(docs)}

DocHas(docs, k) == k \in DocKeys(docs)

DocGet(docs, k) == docs[CHOOSE i \in 1..Len(docs) : docs[i].key = k].value

\* A faulty variant of DocSet: the assignment drops the other keys.
DocSetAlone(docs, k, v) == <<[key |-> k, value |-> v]>>

\* docs[k] = v
DocSet(docs, k, v) ==
    IF DocHas(docs, k)
    THEN [i \in 1..Len(docs) |-> IF docs[i].key = k THEN [key |-> k, value |-> v] ELSE docs[i]]
    ELSE Append(docs, [key |-> k, value |-> v])

\* A faulty variant of MergeDocs: the new documents replace the store.
ReplaceDocs(docs, newDocs) == newDocs

\* for (const [type, content] of Object.entries(newDocs)) merged[type] = content
RECURSIVE MergeDocs(_, _)
MergeDocs(docs, newDocs) ==
    IF newDocs = <<>> THEN docs
    ELSE MergeDocs(DocSet(docs, Head(newDocs).key, Head(newDocs).value), Tail(newDocs))

\* ---------------------------------------------------------- block parser

\* One attempt of /~~~doc:([^\n]+)\n([\s\S]*?)~~~/ at position i.  The greedy
\* label is the maximal run without a newline; it must be non-empty and be
\* followed by a newline; the lazy content ends at the first ~~~ after it.
DocMatchAt(t, i) ==
    LET ls == i + Len(DocOpen)
        le == FirstAt(t, ls, {"\n"})
        cs == le + 1
        f  == FindFence(t, cs)
    IN  IF StartsWithAt(t, i, DocOpen) /\ le > ls /\ le <= Len(t) /\ f # 0
        THEN [ok |-> TRUE, label |-> SubSeq(t, ls, le - 1), content |-> SubSeq(t, cs, f - 1),
              start |-> i, next |-> f + Len(Fence)]
        ELSE [ok |-> FALSE, label |-> <<>>, content |-> <<>>, start |-> i, next |-> i]

\* docRegex.exec from lastIndex = pos, repeated to the end of the text: the
\* successive leftmost matches.
RECURSIVE DocMatches(_, _)
DocMatches(t, pos) ==
    LET c == {i \in pos..Len(t) : DocMatchAt(t, i).ok}
    IN  IF c = {} THEN <<>>
        ELSE LET m == DocMatchAt(t, Min(c))
             IN  <<m>> \o DocMatches(t, m.next)

\* A faulty variant of RemoveMatches: nothing is removed.
KeepMatches(t, pos, ms) == SubSeq(t, pos, Len(t))

\* text.replace(docRegex, ""): the text outside the matches.
RECURSIVE RemoveMatches(_, _, _)
RemoveMatches(t, pos, ms) ==
    IF ms = <<>> THEN SubSeq(t, pos, Len(t))
    ELSE SubSeq(t, pos, Head(ms).start - 1) \o RemoveMatches(t, Head(ms).next, Tail(ms))

\* A faulty variant of DocsOfMatches: the first block of a label wins.
RECURSIVE DocsOfFirstMatches(_, _)
DocsOfFirstMatches(ms, docs) ==
    IF ms = <<>> THEN docs
    ELSE IF DocHas(docs, Trim(Head(ms).label)) THEN DocsOfFirstMatches(Tail(ms), docs)
    ELSE DocsOfFirstMatches(Tail(ms), DocSet(docs, Trim(Head(ms).label), Trim(Head(ms).content)))

\* documents[docType] = content, match after match
RECURSIVE DocsOfMatches(_, _)
DocsOfMatches(ms, docs) ==
    IF ms = <<>> THEN docs
    ELSE DocsOfMatches(Tail(ms), DocSet(docs, Trim(Head(ms).label), Trim(Head(ms).content)))

parseDocumentBlocks(text) ==
    LET ms == DocMatches(text, 1)
    IN  [cleanText |-> Trim(RemoveMatches(text, 1, ms)),
         documents |-> DocsOfMatches(ms, <<>>)]

\* One attempt of /~~~image:([^~]+)~~~/ at position i.
ImageMatchAt(t, i) ==
    LET ps == i + Len(ImageOpen)
        pe == FirstAt(t, ps, {"~"})
    IN  IF StartsWithAt(t, i, ImageOpen) /\ pe > ps /\ StartsWithAt(t, pe, Fence)
        THEN [ok |-> TRUE, prompt |-> SubSeq(t, ps, pe - 1), next |-> pe + Len(Fence)]
        ELSE [ok |-> FALSE, prompt |-> <<>>, next |-> i]

RECURSIVE ImageMatches(_, _)
ImageMatches(t, pos) ==
    LET c == {i \in pos..Len(t) : ImageMatchAt(t, i).ok}
    IN  IF c = {} THEN <<>>
        ELSE LET m == ImageMatchAt(t, Min(c))
             IN  <<Trim(m.prompt)>> \o ImageMatches(t, m.next)

parseImageMarkers(text) == ImageMatches(text, 1)


\* One attempt of /~~~issues\s*\n([\s\S]*?)~~~/ (open = ~~~issues) or of
\* /~~~summary\s*\n([\s\S]*?)~~~/ at position i: the greedy \s* gives back to
\* the last newline of the white-space run that follows the opener.
BlockMatchAt(t, i, open) ==
    LET ws == i + Len(open)
        we == IF {j \in ws..Len(t) : ~IsSpace(t[j])} = {} THEN Len(t) + 1
              ELSE Min({j \in ws..Len(t) : ~IsSpace(t[j])})
        nl == {j \in ws..(we - 1) : t[j] = "\n"}
        cs == IF nl = {} THEN 0 ELSE (CHOOSE x \in nl : \A y \in nl : y <= x) + 1
        f  == IF cs = 0 THEN 0 ELSE FindFence(t, cs)
    IN  IF StartsWithAt(t, i, open) /\ f # 0
        THEN [ok |-> TRUE, interior |-> SubSeq(t, cs, f - 1)]
        ELSE [ok |-> FALSE, interior |-> <<>>]

\* text.match(regex) without the g flag: the leftmost match, or none.
BlockMatch(t, open) ==
    LET c == {i \in 1..Len(t) : BlockMatchAt(t, i, open).ok}
    IN  IF c = {} THEN [ok |-> FALSE, interior |-> <<>>]
        ELSE BlockMatchAt(t, Min(c), open)

\* ------------------------------------------------------------------ JSON

\* A serialized JSON value is one indivisible symbol of the text; these are
\* the serialized issue arrays the verifier service answers with.
KeyPRD == <<"P", "R", "D">>
KeyDesign == <<"D", "e", "s", "i", "g", "n">>

IssueR1 == [id |-> "R-001", severity |-> "critical", targetDoc |-> KeyPRD]
IssueR2 == [id |-> "R-002", severity |-> "info", targetDoc |-> KeyDesign]
IssueR3 == [id |-> "R-003", severity |-> "warning", targetDoc |-> KeyDesign]

JsonTexts == {"[R-001,R-002]", "[R-003]"}

\* Serialized JSON values that are no arrays: an object, null, a number and
\* a string.
JsonOthers == {"{}", "null", "7", "\"x\""}

\* A field of the model holds values of one shape.  Where the code expects
\* an array and JSON.parse gives another value, the field holds one entry
\* that says so and names the value; IsArray tells the two apart.
NotAnArray(sym) == <<[id |-> sym, severity |-> "not an array", targetDoc |-> <<>>]>>

IsArray(value) == \A i \in 1..Len(value) : value[i].severity # "not an array"

JsonValue(sym) ==
    CASE sym = "[R-001,R-002]" -> <<IssueR1, IssueR2>>
      [] sym = "[R-003]" -> <<IssueR3>>
      [] OTHER -> NotAnArray(sym)

\* JSON.parse: white space around one value; anything else throws.
JsonParses(text) == Len(Trim(text)) = 1 /\ Trim(text)[1] \in JsonTexts \cup JsonOthers

JsonParse(text) == JsonValue(Trim(text)[1])

\* A faulty variant of parseIssuesFromResponse: the first JSON value of the
\* interior is read and what follows it is ignored.
parseIssuesFirstValue(text) ==
    LET m == BlockMatch(text, IssuesOpen)
    IN  IF ~m.ok THEN <<>>
        ELSE IF Trim(m.interior) # <<>> /\ Trim(m.interior)[1] \in JsonTexts \cup JsonOthers
             THEN JsonValue(Trim(m.interior)[1]) ELSE <<>>

parseIssuesFromResponse(text) ==
    LET m == BlockMatch(text, IssuesOpen)
    IN  IF ~m.ok THEN <<>>
        ELSE IF JsonParses(m.interior) THEN JsonParse(m.interior) ELSE <<>>

parseSummaryFromResponse(text) ==
    LET m == BlockMatch(text, SummaryOpen)
    IN  IF m.ok THEN Trim(m.interior) ELSE <<>>


\* ------------------------------------------------------------ persistence

MAX_VERSIONS_PER_DOC == 3
MAX_MESSAGES == 200

\* Array.prototype.sort is stable: x goes after every element that does not
\* have to follow it.
RECURSIVE InsertAsc(_, _)
InsertAsc(s, x) ==
    IF s = <<>> THEN <<x>>
    ELSE IF Head(s).timestamp <= x.timestamp THEN <<Head(s)>> \o InsertAsc(Tail(s), x)
    ELSE <<x>> \o s

RECURSIVE SortAsc(_, _)
SortAsc(s, acc) == IF s = <<>> THEN acc ELSE SortAsc(Tail(s), InsertAsc(acc, Head(s)))

RECURSIVE InsertDesc(_, _)
InsertDesc(s, x) ==
    IF s = <<>> THEN <<x>>
    ELSE IF Head(s).timestamp >= x.timestamp THEN <<Head(s)>> \o InsertDesc(Tail(s), x)
    ELSE <<x>> \o s

RECURSIVE SortDesc(_, _)
SortDesc(s, acc) == IF s = <<>> THEN acc ELSE SortDesc(Tail(s), InsertDesc(acc, Head(s)))

RECURSIVE SelectType(_, _)
SelectType(h, k) ==
    IF h = <<>> THEN <<>>
    ELSE IF Head(h).docType = k THEN <<Head(h)>> \o SelectType(Tail(h), k)
    ELSE SelectType(Tail(h), k)

\* The keys of byDocType, in the order the loop over the history creates them.
RECURSIVE TypesInOrder(_, _)
TypesInOrder(h, seen) ==
    IF h = <<>> THEN <<>>
    ELSE IF Head(h).docType \in seen THEN TypesInOrder(Tail(h), seen)
    ELSE <<Head(h).docType>> \o TypesInOrder(Tail(h), seen \cup {Head(h).docType})

\* A faulty variant of Take: the last n elements.
TakeLast(s, n) == SubSeq(s, (IF Len(s) < n THEN 0 ELSE Len(s) - n) + 1, Len(s))

\* versions.slice(0, n)
Take(s, n) == SubSeq(s, 1, IF Len(s) < n THEN Len(s) ELSE n)

RECURSIVE KeptVersions(_, _)
KeptVersions(h, types) ==
    IF types = <<>> THEN <<>>
    ELSE Take(SortDesc(SelectType(h, Head(types)), <<>>), MAX_VERSIONS_PER_DOC)
         \o KeptVersions(h, Tail(types))

\* A faulty variant of trimSession: the first MAX_MESSAGES messages are kept.
trimSessionHead(session) ==
    [messages |-> SubSeq(session.messages, 1,
                         IF Len(session.messages) > MAX_MESSAGES
                         THEN MAX_MESSAGES ELSE Len(session.messages)),
     documents |-> session.documents,
     documentHistory |->
        SortAsc(KeptVersions(session.documentHistory,
                             TypesInOrder(session.documentHistory, {})), <<>>)]

trimSession(session) ==
    [messages |->
        IF Len(session.messages) > MAX_MESSAGES
        THEN SubSeq(session.messages, Len(session.messages) - MAX_MESSAGES + 1,
                    Len(session.messages))
        ELSE session.messages,
     documents |-> session.documents,
     documentHistory |->
        IF Len(session.documentHistory) > 0
        THEN SortAsc(KeptVersions(session.documentHistory,
                                  TypesInOrder(session.documentHistory, {})), <<>>)
        ELSE session.documentHistory]

\* The module state of lib/storage: the IndexedDB record of the session, the
\* pending debounced payload and whether the debounce timer is armed.
NoSession == [messages |-> <<>>, documents |-> <<>>, documentHistory |-> <<>>]

\* saveSession: the puts reach the database in the order they are issued.
saveSession(storage, session) == [storage EXCEPT !.db = trimSession(session)]

\* A faulty variant of debouncedSaveSession: an earlier pending payload stays.
debouncedSaveFirst(storage, session) ==
    [storage EXCEPT !.pendingSession = IF storage.hasPending THEN @ ELSE session,
                    !.hasPending = TRUE, !.debounceTimer = TRUE]

\* _pendingSession = session; clearTimeout; setTimeout
debouncedSaveSession(storage, session) ==
    [storage EXCEPT !.pendingSession = session, !.hasPending = TRUE, !.debounceTimer = TRUE]

\* ------------------------------------------------- session page (the store)

\* The page's state a handler works on: [session, storage, activeDoc].

handleMessagesUpdate(st, messages) ==
    LET updated == [st.session EXCEPT !.messages = messages]
    IN  [st EXCEPT !.session = updated,
                   !.storage = debouncedSaveSession(st.storage, updated)]

handleDocumentsUpdate(st, newDocs) ==
    LET updated == [st.session EXCEPT !.documents = MergeDocs(st.session.documents, newDocs)]
    IN  [st EXCEPT !.session = updated,
                   !.storage = saveSession(st.storage, updated),
                   !.activeDoc = IF newDocs # <<>> /\ newDocs[1].key # <<>>
                                 THEN newDocs[1].key ELSE st.activeDoc]

handleDocumentEdit(st, docType, newContent) ==
    LET updated == [st.session EXCEPT !.documents = DocSet(st.session.documents, docType, newContent)]
    IN  [st EXCEPT !.session = updated,
                   !.storage = saveSession(st.storage, updated)]

\* A faulty variant of SnapshotEntries: a version of the first document only.
SnapshotFirstEntry(docs, source, now) ==
    [i \in 1..(IF Len(docs) > 0 THEN 1 ELSE 0) |->
        [docType |-> docs[i].key, content |-> docs[i].value,
         timestamp |-> now, source |-> source]]

\* A faulty variant of SnapshotEntries: the versions carry no content.
SnapshotBlankEntries(docs, source, now) ==
    [i \in 1..Len(docs) |->
        [docType |-> docs[i].key, content |-> <<>>,
         timestamp |-> now, source |-> source]]

\* Object.entries(docs).map(...): one version per entry, all stamped now.
SnapshotEntries(docs, source, now) ==
    [i \in 1..Len(docs) |->
        [docType |-> docs[i].key, content |-> docs[i].value,
         timestamp |-> now, source |-> source]]

handleSnapshotVersions(st, docs, source, now) ==
    LET updated == [st.session EXCEPT
                        !.documentHistory = st.session.documentHistory
                                            \o SnapshotEntries(docs, source, now)]
    IN  [st EXCEPT !.session = updated,
                   !.storage = saveSession(st.storage, updated)]


\* ------------------------------------------------------------------ state

VARIABLES
    session,           \* page: the in-memory Session {messages, documents, documentHistory}
    storage,           \* lib/storage: {db, pendingSession, hasPending, debounceTimer}
    activeDoc,         \* page: the selected document key, <<>> for none
    isStreaming,       \* page: "a generation is in flight"
    verifierState,     \* page: the VerifierState the panel is controlled by
    verifierActive,    \* DocPreview: the VerifierPanel is mounted
    mounts,            \* history: how many times the VerifierPanel was mounted
    streamingContent,  \* ChatPanel: the streamed buffer shown live
    pendingImages,     \* ChatPanel: image requests of the last generation
    abortRef,          \* ChatPanel: the generation whose AbortController is current, 0 for null
    sendCap,           \* ChatPanel: what the memoized sendMessage closed over
    gens,              \* the sendMessage invocations, by number
    rvCap,             \* VerifierPanel: what the memoized runVerify closed over
    vAbortRef,         \* VerifierPanel: the verify run whose AbortController is current, 0 for null
    applyingId,        \* VerifierPanel: the issue id of the running single fix, "" for null
    vruns,             \* the runVerify invocations, by number
    timers,            \* pending setTimeout(runVerify, 100) callbacks
    fixes,             \* the applySingleFix invocations, by number
    alls,              \* the applyAllFixes invocations, by number
    lastVerify,        \* history: the issue list the last completed verify computed
    now,               \* Date.now()
    edits              \* history: how many times the editor's Save was used

pageVars == <<session, storage, activeDoc>>
chatVars == <<isStreaming, streamingContent, pendingImages, abortRef, sendCap, gens>>
panelVars == <<verifierState, verifierActive, mounts, rvCap, vAbortRef, applyingId>>
procVars == <<vruns, timers, fixes, alls, lastVerify>>
vars == <<session, storage, activeDoc, isStreaming, verifierState, verifierActive, mounts,
          streamingContent, pendingImages, abortRef, sendCap, gens, rvCap, vAbortRef,
          applyingId, vruns, timers, fixes, alls, lastVerify, now, edits>>

\* ----------------------------------------------------------------- bounds

MaxGens == 3        \* sendMessage invocations in one behaviour
MaxVerifyRuns == 2  \* runVerify invocations in one behaviour
MaxFixes == 1       \* applySingleFix invocations in one behaviour
MaxAlls == 1        \* applyAllFixes invocations in one behaviour
MaxTimers == 1      \* pending re-verify timers at one time
MaxTime == 1        \* the clock stops advancing here
MaxMounts == 1      \* mounts of the VerifierPanel in one behaviour
MaxEdits == 1       \* saves of the editor in one behaviour
MaxHistory == 5     \* versions in the history of a stored session
MaxStamp == 2       \* the timestamps of a stored history are 0..MaxStamp
MaxStored == 250    \* messages of a stored session
MaxPieces == 3      \* pieces an answer of the chat service is put together from
MaxRead == 64       \* bytes one read of a response stream delivers

\* ----------------------------------------------------- inputs of the model

KeyTechSpec == <<"T", "e", "c", "h", " ", "S", "p", "e", "c">>
TextV1 == <<"v", "1">>
TextD1 == <<"d", "1">>
TextV2 == <<"v", "2">>
TextV3 == <<"v", "3">>

\* The sessions a page is opened on.
InitialDocuments ==
    { <<[key |-> KeyPRD, value |-> TextV1]>>,
      <<[key |-> KeyPRD, value |-> TextV1], [key |-> KeyDesign, value |-> TextD1]>> }

\* What the user types into the chat box and into the editor.
UserInputs == { <<"h", "i">> }
EditContents == { TextV2 }

\* The streamed answers of the chat service, as the text of each read.
ScriptSpec ==
    << <<"S", "u", "m", "m", "a", "r", "y", " ", "t", "e", "x", "t", " ">>,
       <<"~", "~", "~", "d", "o", "c", ":", "T", "e", "c", "h", " ", "S", "p", "e", "c",
         "\n", "#", " ", "S", "p", "e", "c", "\n">>,
       <<"~", "~", "~">> >>
ScriptPrdImage ==
    << <<"~", "~", "~", "d", "o", "c", ":", "P", "R", "D", "\n", "v", "2", "\n", "~", "~", "~">>,
       <<"~", "~", "~", "i", "m", "a", "g", "e", ":", "d", "~", "~", "~">> >>
ChatScripts == <<ScriptSpec, ScriptPrdImage>>

ConnectionError == <<"Connection error. Please check your API key and try again.">>

\* -------------------------------------------------------------- closures

PageState == [session |-> session, storage |-> storage, activeDoc |-> activeDoc]

\* sendMessage = useCallback(..., [isStreaming, messages, existingDocs, ...]):
\* verifyReport is read by the body and is not a dependency.
SendClosure(streaming, sess, vs) ==
    [isStreaming |-> streaming, messages |-> sess.messages,
     existingDocs |-> sess.documents, verifyReport |-> vs.rawReport]

SendDepsChanged(streaming, newMessages, newDocuments) ==
    streaming # sendCap.isStreaming \/ newMessages \/ newDocuments

\* runVerify = useCallback(..., [documents, docCount]): updateState, and with it
\* verifierState, is read by the body and is not a dependency.
VerifyClosure(sess, vs) == [vs |-> vs, documents |-> sess.documents]

VerifyDepsChanged(newDocuments) == newDocuments

INITIAL_VERIFIER_STATE ==
    [phase |-> "idle", issues |-> <<>>, summary |-> <<>>,
     dismissed |-> <<>>, applied |-> <<>>, rawReport |-> <<>>]

NoClosure == [vs |-> INITIAL_VERIFIER_STATE, documents |-> <<>>]

\* The render after an action that left the panel's mount state alone:
\* newMessages / newDocuments say the action put a new messages array / a new
\* documents object into the session.
Render(newMessages, newDocuments) ==
    /\ sendCap' = IF SendDepsChanged(isStreaming', newMessages, newDocuments)
                  THEN SendClosure(isStreaming', session', verifierState')
                  ELSE sendCap
    /\ rvCap' = IF verifierActive /\ VerifyDepsChanged(newDocuments)
                THEN VerifyClosure(session', verifierState')
                ELSE rvCap


\* ------------------------------------------------------------- ChatPanel

NoRequest == [message |-> <<>>, history |-> <<>>, existingDocs |-> <<>>, verifyReport |-> <<>>]

\* A settled invocation keeps nothing.
DoneGen == [pc |-> "done", script |-> 0, pos |-> 0, fullText |-> <<>>,
            newMessages |-> <<>>, imagePrompts |-> <<>>, request |-> NoRequest]

\* A faulty variant of AssistantMessage: the content is the text as it came.
AssistantMessageRaw(text) == [role |-> "assistant", content |-> text]

\* content: cleanText || text
AssistantMessage(text) ==
    LET cleanText == parseDocumentBlocks(text).cleanText
    IN  [role |-> "assistant", content |-> IF cleanText # <<>> THEN cleanText ELSE text]

\* onMessagesUpdate([...base, assistantMsg]);
\* if (Object.keys(documents).length > 0) onDocumentsUpdate(documents)
Finalize(st, base, text) ==
    LET documents == parseDocumentBlocks(text).documents
        st1 == handleMessagesUpdate(st, Append(base, AssistantMessage(text)))
    IN  IF Len(documents) > 0 THEN handleDocumentsUpdate(st1, documents) ELSE st1

\* The body of /api/chat's request as sendMessage builds it.
ChatRequest(cap, trimmed) ==
    [message |-> trimmed, history |-> cap.messages,
     existingDocs |-> cap.existingDocs, verifyReport |-> cap.verifyReport]

\* /api/chat: the system instruction is the base instruction, then the block
\* of existing documents when there are any, then the verifier report when
\* the request carries one.
SystemInstruction(request) ==
    <<[part |-> "base", body |-> <<>>]>>
    \o (IF Len(request.existingDocs) > 0
        THEN <<[part |-> "existingDocs", body |-> request.existingDocs]>> ELSE <<>>)
    \o (IF request.verifyReport # <<>>
        THEN <<[part |-> "verifyReport", body |-> request.verifyReport]>> ELSE <<>>)

\* sendMessage up to its first await.
SendMessage(messageText) ==
    /\ Len(gens) < MaxGens
    /\ Trim(messageText) # <<>>
    /\ ~sendCap.isStreaming
    /\ LET trimmed == Trim(messageText)
           newMessages == Append(sendCap.messages, [role |-> "user", content |-> trimmed])
           st1 == handleMessagesUpdate(PageState, newMessages)
       IN  /\ session' = st1.session
           /\ storage' = st1.storage
           /\ activeDoc' = st1.activeDoc
           /\ gens' = Append(gens, [pc |-> "stream", script |-> 0, pos |-> 0,
                                    fullText |-> <<>>, newMessages |-> newMessages,
                                    imagePrompts |-> <<>>,
                                    request |-> ChatRequest(sendCap, trimmed)])
    /\ streamingContent' = <<>>
    /\ pendingImages' = <<>>
    /\ isStreaming' = TRUE
    /\ abortRef' = Len(gens) + 1
    /\ UNCHANGED <<verifierState, verifierActive, mounts, vAbortRef, applyingId, procVars, now, edits>>
    /\ Render(TRUE, FALSE)

\* One reader.read() that delivers text: fullText += parsed.text;
\* setStreamingContent(fullText).  The first read fixes which answer it is.
ChatChunk(g, k) ==
    /\ gens[g].pc = "stream"
    /\ gens[g].script \in {0, k}
    /\ gens[g].pos < Len(ChatScripts[k])
    /\ LET fullText == gens[g].fullText \o ChatScripts[k][gens[g].pos + 1]
       IN  /\ gens' = [gens EXCEPT ![g].script = k, ![g].pos = @ + 1, ![g].fullText = fullText]
           /\ streamingContent' = fullText
    /\ UNCHANGED <<pageVars, isStreaming, pendingImages, abortRef, panelVars, procVars, now, edits>>
    /\ UNCHANGED sendCap

\* The read that reports done: the finalize step, then either the image
\* fan-out (sendMessage stays suspended on Promise.all) or the finally block.
ChatFinish(g) ==
    /\ gens[g].pc = "stream"
    /\ gens[g].script # 0
    /\ gens[g].pos = Len(ChatScripts[gens[g].script])
    /\ LET fullText == gens[g].fullText
           st1 == Finalize(PageState, gens[g].newMessages, fullText)
           imagePrompts == parseImageMarkers(fullText)
       IN  /\ session' = st1.session
           /\ storage' = st1.storage
           /\ activeDoc' = st1.activeDoc
           /\ IF Len(imagePrompts) > 0
              THEN /\ pendingImages' = [i \in 1..Len(imagePrompts) |->
                                          [prompt |-> imagePrompts[i], status |-> "loading"]]
                   /\ gens' = [gens EXCEPT ![g].pc = "images",
                                            ![g].imagePrompts = imagePrompts]
                   /\ UNCHANGED <<streamingContent, isStreaming, abortRef>>
              ELSE /\ gens' = [gens EXCEPT ![g] = DoneGen]
                   /\ streamingContent' = <<>>
                   /\ isStreaming' = FALSE
                   /\ abortRef' = 0
                   /\ UNCHANGED pendingImages
           /\ UNCHANGED <<verifierState, verifierActive, mounts, vAbortRef, applyingId, procVars, now, edits>>
           /\ Render(TRUE, Len(parseDocumentBlocks(fullText).documents) > 0)

\* fetch rejects, the status is not OK, or a read fails: the catch block for
\* an error that is no AbortError, then the finally block.
ChatFail(g) ==
    /\ gens[g].pc = "stream"
    /\ LET errorMsg == [role |-> "assistant", content |-> ConnectionError]
           st1 == handleMessagesUpdate(PageState, Append(gens[g].newMessages, errorMsg))
       IN  /\ session' = st1.session
           /\ storage' = st1.storage
           /\ activeDoc' = st1.activeDoc
    /\ gens' = [gens EXCEPT ![g] = DoneGen]
    /\ streamingContent' = <<>>
    /\ isStreaming' = FALSE
    /\ abortRef' = 0
    /\ UNCHANGED <<pendingImages, verifierState, verifierActive, mounts, vAbortRef, applyingId,
                   procVars, now, edits>>
    /\ Render(TRUE, FALSE)

\* A faulty variant of ImagesSettle: the images are set and the invocation
\* ends without its finally block.
ImagesSettleNoFinally(g, ok) ==
    /\ gens[g].pc = "images"
    /\ LET imagePrompts == gens[g].imagePrompts
       IN  pendingImages' = [i \in 1..Len(imagePrompts) |->
                                [prompt |-> imagePrompts[i],
                                 status |-> IF ok THEN "done" ELSE "error"]]
    /\ gens' = [gens EXCEPT ![g] = DoneGen]
    /\ UNCHANGED <<pageVars, isStreaming, streamingContent, abortRef, sendCap, panelVars,
                   procVars, now, edits>>

\* Promise.all(imagePrompts.map(generateImage)) settles (generateImage never
\* rejects): setPendingImages(results), then the finally block.
ImagesSettle(g, ok) ==
    /\ gens[g].pc = "images"
    /\ LET imagePrompts == gens[g].imagePrompts
       IN  pendingImages' = [i \in 1..Len(imagePrompts) |->
                                [prompt |-> imagePrompts[i],
                                 status |-> IF ok THEN "done" ELSE "error"]]
    /\ gens' = [gens EXCEPT ![g] = DoneGen]
    /\ streamingContent' = <<>>
    /\ isStreaming' = FALSE
    /\ abortRef' = 0
    /\ UNCHANGED <<pageVars, verifierState, verifierActive, mounts, vAbortRef, applyingId,
                   procVars, now, edits>>
    /\ Render(FALSE, FALSE)

\* The Stop button (rendered while isStreaming).  abort() rejects the fetch
\* or read the current invocation is suspended on; its catch (AbortError:
\* nothing) and finally run as microtasks, before any other event.  An
\* invocation suspended on the image fan-out is not affected by abort().
handleStop ==
    /\ isStreaming
    /\ LET aborted == abortRef # 0 /\ gens[abortRef].pc = "stream"
           st1 == IF streamingContent # <<>>
                  THEN Finalize(PageState, session.messages, streamingContent)
                  ELSE PageState
       IN  /\ session' = st1.session
           /\ storage' = st1.storage
           /\ activeDoc' = st1.activeDoc
           /\ gens' = IF aborted THEN [gens EXCEPT ![abortRef] = DoneGen] ELSE gens
           /\ abortRef' = IF aborted THEN 0 ELSE abortRef
           /\ isStreaming' = FALSE
           /\ streamingContent' = <<>>
           /\ UNCHANGED <<pendingImages, verifierState, verifierActive, mounts, vAbortRef,
                          applyingId, procVars, now, edits>>
           /\ Render(streamingContent # <<>>,
                     Len(parseDocumentBlocks(streamingContent).documents) > 0)


\* ------------------------------------------------------------ DocPreview

Orphan(procs) == [i \in 1..Len(procs) |-> [procs[i] EXCEPT !.live = FALSE]]

\* The Verifier button (rendered when docCount >= 2) mounts or unmounts the
\* panel.  A mount creates the panel's callbacks, refs and local state anew;
\* what an unmounted instance left running keeps its closures and its refs.
ToggleVerifier ==
    /\ Len(session.documents) >= 2
    /\ verifierActive \/ mounts < MaxMounts
    /\ verifierActive' = ~verifierActive
    /\ mounts' = IF verifierActive THEN mounts ELSE mounts + 1
    /\ rvCap' = IF verifierActive THEN NoClosure ELSE VerifyClosure(session, verifierState)
    /\ vAbortRef' = 0
    /\ applyingId' = ""
    /\ vruns' = Orphan(vruns)
    /\ fixes' = Orphan(fixes)
    /\ timers' = Orphan(timers)
    /\ UNCHANGED <<pageVars, chatVars, verifierState, alls, lastVerify, now, edits>>

\* A document tab: setVerifierActive(false); onSelectDoc(docType)
handleSelectDoc(docType) ==
    /\ DocHas(session.documents, docType)
    /\ activeDoc' = docType
    /\ verifierActive' = FALSE
    /\ UNCHANGED mounts
    /\ rvCap' = NoClosure
    /\ vAbortRef' = 0
    /\ applyingId' = ""
    /\ vruns' = Orphan(vruns)
    /\ fixes' = Orphan(fixes)
    /\ timers' = Orphan(timers)
    /\ UNCHANGED <<session, storage, chatVars, verifierState, alls, lastVerify, now, edits>>

\* The Save button of the editor (opened on the active document while it has
\* content): onDocumentEdit(activeDoc, editContent), the text the user typed.
handleSaveEdit(editContent) ==
    /\ edits < MaxEdits
    /\ edits' = edits + 1
    /\ activeDoc # <<>>
    /\ DocHas(session.documents, activeDoc)
    /\ DocGet(session.documents, activeDoc) # <<>>
    /\ LET st1 == handleDocumentEdit(PageState, activeDoc, editContent)
       IN  /\ session' = st1.session
           /\ storage' = st1.storage
           /\ activeDoc' = st1.activeDoc
    /\ UNCHANGED <<isStreaming, streamingContent, pendingImages, abortRef, gens,
                   verifierState, verifierActive, mounts, vAbortRef, applyingId, procVars, now>>
    /\ Render(FALSE, TRUE)

\* ------------------------------------------------------------ lib/storage

\* The debounce timer's callback.
DebounceFire ==
    /\ storage.debounceTimer
    /\ storage' = IF storage.hasPending
                  THEN [saveSession(storage, storage.pendingSession) EXCEPT
                            !.pendingSession = NoSession, !.hasPending = FALSE,
                            !.debounceTimer = FALSE]
                  ELSE [storage EXCEPT !.debounceTimer = FALSE]
    /\ UNCHANGED <<session, activeDoc, chatVars, panelVars, procVars, now, edits>>

\* beforeunload
flushPendingSave ==
    /\ storage' = IF storage.hasPending
                  THEN [saveSession(storage, storage.pendingSession) EXCEPT
                            !.pendingSession = NoSession, !.hasPending = FALSE,
                            !.debounceTimer = FALSE]
                  ELSE [storage EXCEPT !.debounceTimer = FALSE]
    /\ UNCHANGED <<session, activeDoc, chatVars, panelVars, procVars, now, edits>>

\* ---------------------------------------------------------- VerifierPanel

\* The answers of /api/verify in mode "verify", and in mode "harmonize".
VerifyScripts ==
    << <<"~", "~", "~", "i", "s", "s", "u", "e", "s", "\n", "[R-001,R-002]", "\n",
         "~", "~", "~", "\n", "~", "~", "~", "s", "u", "m", "m", "a", "r", "y", "\n",
         "S", "\n", "~", "~", "~">>,
       <<"~", "~", "~", "i", "s", "s", "u", "e", "s", "\n", "[R-003]", "\n", "~", "~", "~">> >>
HarmonizeScripts ==
    << <<"~", "~", "~", "d", "o", "c", ":", "P", "R", "D", "\n", "v", "3", "\n", "~", "~", "~">>,
       <<"o", "k">> >>

VerificationFailed == <<"Verification failed. Please try again.">>

\* updateState(patch) of the render that saw vs: onVerifierStateChange({...vs, ...patch})
updateState(vs, patch) ==
    [phase     |-> IF "phase" \in DOMAIN patch THEN patch.phase ELSE vs.phase,
     issues    |-> IF "issues" \in DOMAIN patch THEN patch.issues ELSE vs.issues,
     summary   |-> IF "summary" \in DOMAIN patch THEN patch.summary ELSE vs.summary,
     dismissed |-> IF "dismissed" \in DOMAIN patch THEN patch.dismissed ELSE vs.dismissed,
     applied   |-> IF "applied" \in DOMAIN patch THEN patch.applied ELSE vs.applied,
     rawReport |-> IF "rawReport" \in DOMAIN patch THEN patch.rawReport ELSE vs.rawReport]

\* handleReportReady: setVerifierState(prev => ({...prev, rawReport: report}))
handleReportReady(prev, report) == [prev EXCEPT !.rawReport = report]

SeqToSet(s) == {s[i] : i \in 1..Len(s)}

\* A filter that forgets the test of the severity.
RECURSIVE FilterIssuesAnySeverity(_, _)
FilterIssuesAnySeverity(issues, excluded) ==
    IF issues = <<>> THEN <<>>
    ELSE (IF Head(issues).id \notin excluded THEN <<Head(issues)>> ELSE <<>>)
         \o FilterIssuesAnySeverity(Tail(issues), excluded)

RECURSIVE FilterIssues(_, _)
FilterIssues(issues, excluded) ==
    IF issues = <<>> THEN <<>>
    ELSE (IF Head(issues).id \notin excluded /\ Head(issues).severity # "info"
          THEN <<Head(issues)>> ELSE <<>>) \o FilterIssues(Tail(issues), excluded)

\* remaining, as applyAllFixes and the Apply All button compute it
Remaining(vs) == FilterIssues(vs.issues, SeqToSet(vs.dismissed) \cup SeqToSet(vs.applied))

Ids(issues) == [i \in 1..Len(issues) |-> issues[i].id]

\* A settled invocation keeps nothing.
DoneRun == [pc |-> "done", cap |-> NoClosure, live |-> FALSE, reverify |-> FALSE]
DoneFix == [pc |-> "done", issue |-> "", vs |-> INITIAL_VERIFIER_STATE, live |-> FALSE]
DoneAll == [pc |-> "done", remaining |-> <<>>, vs |-> INITIAL_VERIFIER_STATE]

\* runVerify of the closure cap, up to its first await.  live: the panel
\* instance it belongs to is the mounted one; reverify: the Re-Verify
\* button's timeout called it.
StartVerify(cap, live, reverify) ==
    IF Len(cap.documents) < 2
    THEN UNCHANGED <<verifierState, vruns, vAbortRef>>
    ELSE /\ verifierState' = updateState(cap.vs,
                [phase |-> "verifying", issues |-> <<>>, summary |-> <<>>,
                 dismissed |-> <<>>, applied |-> <<>>, rawReport |-> <<>>])
         /\ vruns' = Append(vruns, [pc |-> "pending", cap |-> cap, live |-> live,
                                    reverify |-> reverify])
         /\ vAbortRef' = IF live THEN Len(vruns) + 1 ELSE vAbortRef

\* A faulty variant of RunVerifyClick: a run starts on whatever documents the
\* session holds, with none of the checks of docCount.
RunVerifyUnguarded ==
    /\ verifierState.phase = "idle"
    /\ Len(vruns) + Len(timers) < MaxVerifyRuns
    /\ verifierState' = updateState(verifierState,
            [phase |-> "verifying", issues |-> <<>>, summary |-> <<>>,
             dismissed |-> <<>>, applied |-> <<>>, rawReport |-> <<>>])
    /\ vruns' = Append(vruns, [pc |-> "pending", cap |-> VerifyClosure(session, verifierState),
                               live |-> TRUE, reverify |-> FALSE])
    /\ vAbortRef' = Len(vruns) + 1
    /\ UNCHANGED <<pageVars, chatVars, verifierActive, mounts, rvCap, applyingId,
                   timers, fixes, alls, lastVerify, now, edits>>

\* The Run Verification button (idle, docCount >= 2): onClick={runVerify}
RunVerifyClick ==
    /\ verifierActive
    /\ verifierState.phase = "idle"
    /\ Len(session.documents) >= 2
    /\ Len(vruns) + Len(timers) < MaxVerifyRuns
    /\ StartVerify(rvCap, TRUE, FALSE)
    /\ UNCHANGED <<pageVars, chatVars, verifierActive, mounts, rvCap, applyingId,
                   timers, fixes, alls, lastVerify, now, edits>>

\* The Re-Verify button (ready or done):
\* updateState({...INITIAL_VERIFIER_STATE}); setTimeout(runVerify, 100)
ReVerifyClick ==
    /\ verifierActive
    /\ verifierState.phase \in {"ready", "done"}
    /\ Len(timers) < MaxTimers
    /\ Len(vruns) + Len(timers) < MaxVerifyRuns
    /\ verifierState' = updateState(verifierState, INITIAL_VERIFIER_STATE)
    /\ timers' = Append(timers, [cap |-> rvCap, live |-> TRUE])
    /\ UNCHANGED <<pageVars, chatVars, verifierActive, mounts, rvCap, vAbortRef, applyingId,
                   vruns, fixes, alls, lastVerify, now, edits>>

\* The timeout of a Re-Verify click expires: the runVerify it was given runs.
TimerFire ==
    /\ timers # <<>>
    /\ StartVerify(Head(timers).cap, Head(timers).live, TRUE)
    /\ timers' = Tail(timers)
    /\ UNCHANGED <<pageVars, chatVars, verifierActive, mounts, rvCap, applyingId,
                   fixes, alls, lastVerify, now, edits>>

\* The verify stream ends: parse, updateState({phase: "ready", ...}),
\* onReportReady(full), then the finally block.
VerifyRespondWith(r, full) ==
    /\ vruns[r].pc = "pending"
    /\ LET parsedIssues == parseIssuesFromResponse(full)
           parsedSummary == parseSummaryFromResponse(full)
       IN  /\ verifierState' = handleReportReady(
                  updateState(vruns[r].cap.vs,
                      [phase |-> "ready", issues |-> parsedIssues,
                       summary |-> parsedSummary, rawReport |-> full]), full)
           /\ lastVerify' = parsedIssues
    /\ vAbortRef' = IF vruns[r].live THEN 0 ELSE vAbortRef
    /\ vruns' = [vruns EXCEPT ![r] = DoneRun]
    /\ UNCHANGED <<pageVars, chatVars, verifierActive, mounts, rvCap, applyingId,
                   timers, fixes, alls, now, edits>>

\* The verify stream ends having delivered the k-th of VerifyScripts.
VerifyRespond(r, k) == VerifyRespondWith(r, VerifyScripts[k])

\* The verify request fails with an error that is no AbortError.
VerifyFail(r) ==
    /\ vruns[r].pc = "pending"
    /\ verifierState' = updateState(vruns[r].cap.vs,
                            [phase |-> "ready", summary |-> VerificationFailed])
    /\ vAbortRef' = IF vruns[r].live THEN 0 ELSE vAbortRef
    /\ vruns' = [vruns EXCEPT ![r] = DoneRun]
    /\ UNCHANGED <<pageVars, chatVars, verifierActive, mounts, rvCap, applyingId,
                   timers, fixes, alls, lastVerify, now, edits>>

\* The Cancel button (verifying): abortRef.current?.abort();
\* updateState({phase: "idle"}).  The aborted run's catch (AbortError:
\* updateState({phase: "idle"}) of its own closure) and finally run as
\* microtasks, before any other event.
CancelVerify ==
    /\ verifierActive
    /\ verifierState.phase = "verifying"
    /\ LET aborted == vAbortRef # 0 /\ vruns[vAbortRef].pc = "pending"
       IN  /\ verifierState' =
                  IF aborted
                  THEN updateState(vruns[vAbortRef].cap.vs, [phase |-> "idle"])
                  ELSE updateState(verifierState, [phase |-> "idle"])
           /\ vruns' = IF aborted THEN [vruns EXCEPT ![vAbortRef] = DoneRun] ELSE vruns
           /\ vAbortRef' = IF aborted THEN 0 ELSE vAbortRef
    /\ UNCHANGED <<pageVars, chatVars, verifierActive, mounts, rvCap, applyingId,
                   timers, fixes, alls, lastVerify, now, edits>>

\* An issue card is on screen with its Apply Fix and Dismiss buttons.
CardActionable(i) ==
    /\ verifierActive
    /\ verifierState.phase \in {"ready", "done", "harmonizing"}
    /\ i \in 1..Len(verifierState.issues)
    /\ verifierState.issues[i].id \notin SeqToSet(verifierState.dismissed)
    /\ verifierState.issues[i].id \notin SeqToSet(verifierState.applied)

\* onDismiss: updateState({dismissed: [...verifierState.dismissed, issue.id]})
Dismiss(i) ==
    /\ CardActionable(i)
    /\ verifierState' = updateState(verifierState,
            [dismissed |-> Append(verifierState.dismissed, verifierState.issues[i].id)])
    /\ UNCHANGED <<pageVars, chatVars, verifierActive, mounts, rvCap, vAbortRef, applyingId,
                   procVars, now, edits>>

\* The clock reading of a Date.now() call.
Clock == {t \in {now, now + 1} : t <= MaxTime}

\* applySingleFix(issue) up to its first await: setApplyingId(issue.id);
\* onSnapshotVersions(documents, "harmonized"); the request is sent.
ApplySingleFix(i) ==
    /\ CardActionable(i)
    /\ applyingId # verifierState.issues[i].id
    /\ Len(fixes) < MaxFixes
    /\ \E t \in Clock :
        LET st1 == handleSnapshotVersions(PageState, session.documents, "harmonized", t)
        IN  /\ session' = st1.session
            /\ storage' = st1.storage
            /\ activeDoc' = st1.activeDoc
            /\ now' = t
    /\ applyingId' = verifierState.issues[i].id
    /\ fixes' = Append(fixes, [pc |-> "pending", issue |-> verifierState.issues[i].id,
                               vs |-> verifierState, live |-> TRUE])
    /\ UNCHANGED <<isStreaming, streamingContent, pendingImages, abortRef, gens,
                   verifierState, verifierActive, mounts, vAbortRef, vruns, timers, alls, lastVerify, edits>>
    /\ Render(FALSE, FALSE)

\* The harmonize stream of a single fix ends: merge the corrected documents,
\* updateState({applied: [...verifierState.applied, issue.id]}), finally.
FixRespond(f, k) ==
    /\ fixes[f].pc = "pending"
    /\ LET correctedDocs == parseDocumentBlocks(HarmonizeScripts[k]).documents
           st1 == IF Len(correctedDocs) > 0
                  THEN handleDocumentsUpdate(PageState, correctedDocs) ELSE PageState
       IN  /\ session' = st1.session
           /\ storage' = st1.storage
           /\ activeDoc' = st1.activeDoc
           /\ verifierState' = updateState(fixes[f].vs,
                   [applied |-> Append(fixes[f].vs.applied, fixes[f].issue)])
           /\ applyingId' = IF fixes[f].live THEN "" ELSE applyingId
           /\ fixes' = [fixes EXCEPT ![f] = DoneFix]
           /\ UNCHANGED <<isStreaming, streamingContent, pendingImages, abortRef, gens,
                          verifierActive, mounts, vAbortRef, vruns, timers, alls, lastVerify, now, edits>>
           /\ Render(FALSE, Len(correctedDocs) > 0)

\* The harmonize request of a single fix fails: nothing, then finally.
FixFail(f) ==
    /\ fixes[f].pc = "pending"
    /\ applyingId' = IF fixes[f].live THEN "" ELSE applyingId
    /\ fixes' = [fixes EXCEPT ![f] = DoneFix]
    /\ UNCHANGED <<pageVars, chatVars, verifierState, verifierActive, mounts, rvCap, vAbortRef,
                   vruns, timers, alls, lastVerify, now, edits>>

\* The Apply All button (ready, remaining not empty): applyAllFixes up to
\* its first await. The button is rendered under the condition the handler
\* tests again (remaining.length === 0 returns at once), and the handler is
\* renewed with every verifierState, so the early return is never taken.
ApplyAllFixes ==
    /\ verifierActive
    /\ verifierState.phase = "ready"
    /\ Len(Remaining(verifierState)) > 0
    /\ Len(alls) < MaxAlls
    /\ verifierState' = updateState(verifierState, [phase |-> "harmonizing"])
    /\ \E t \in Clock :
        LET st1 == handleSnapshotVersions(PageState, session.documents, "harmonized", t)
        IN  /\ session' = st1.session
            /\ storage' = st1.storage
            /\ activeDoc' = st1.activeDoc
            /\ now' = t
    /\ alls' = Append(alls, [pc |-> "pending", remaining |-> Ids(Remaining(verifierState)),
                             vs |-> verifierState])
    /\ UNCHANGED <<isStreaming, streamingContent, pendingImages, abortRef, gens,
                   verifierActive, mounts, vAbortRef, applyingId, vruns, timers, fixes, lastVerify, edits>>
    /\ Render(FALSE, FALSE)

\* The harmonize stream of apply-all ends.
AllRespond(a, k) ==
    /\ alls[a].pc = "pending"
    /\ LET correctedDocs == parseDocumentBlocks(HarmonizeScripts[k]).documents
           st1 == IF Len(correctedDocs) > 0
                  THEN handleDocumentsUpdate(PageState, correctedDocs) ELSE PageState
       IN  /\ session' = st1.session
           /\ storage' = st1.storage
           /\ activeDoc' = st1.activeDoc
           /\ verifierState' = updateState(alls[a].vs,
                   [phase |-> "done", applied |-> alls[a].vs.applied \o alls[a].remaining])
           /\ alls' = [alls EXCEPT ![a] = DoneAll]
           /\ UNCHANGED <<isStreaming, streamingContent, pendingImages, abortRef, gens,
                          verifierActive, mounts, vAbortRef, applyingId, vruns, timers, fixes,
                          lastVerify, now, edits>>
           /\ Render(FALSE, Len(correctedDocs) > 0)

\* The harmonize request of apply-all fails: updateState({phase: "ready"})
AllFail(a) ==
    /\ alls[a].pc = "pending"
    /\ verifierState' = updateState(alls[a].vs, [phase |-> "ready"])
    /\ alls' = [alls EXCEPT ![a] = DoneAll]
    /\ UNCHANGED <<pageVars, chatVars, verifierActive, mounts, rvCap, vAbortRef, applyingId,
                   vruns, timers, fixes, lastVerify, now, edits>>

\* ---------------------------------------------------------- specification

\* The page after getSession resolved on a stored session with no messages
\* and no history, the chat and the verifier not yet used.
Init ==
    /\ \E docs \in InitialDocuments :
        /\ session = [messages |-> <<>>, documents |-> docs, documentHistory |-> <<>>]
        /\ storage = [db |-> session, pendingSession |-> NoSession,
                      hasPending |-> FALSE, debounceTimer |-> FALSE]
        /\ activeDoc = docs[1].key
        /\ sendCap = SendClosure(FALSE, session, INITIAL_VERIFIER_STATE)
    /\ isStreaming = FALSE
    /\ verifierState = INITIAL_VERIFIER_STATE
    /\ verifierActive = FALSE
    /\ mounts = 0
    /\ streamingContent = <<>>
    /\ pendingImages = <<>>
    /\ abortRef = 0
    /\ gens = <<>>
    /\ rvCap = NoClosure
    /\ vAbortRef = 0
    /\ applyingId = ""
    /\ vruns = <<>>
    /\ timers = <<>>
    /\ fixes = <<>>
    /\ alls = <<>>
    /\ lastVerify = <<>>
    /\ now = 0
    /\ edits = 0

\* A generation runs on: its reads, its end, its failure, its images.
StreamActions ==
    \/ \E g \in 1..Len(gens), k \in 1..Len(ChatScripts) : ChatChunk(g, k)
    \/ \E g \in 1..Len(gens) : ChatFinish(g)
    \/ \E g \in 1..Len(gens) : ChatFail(g)
    \/ \E g \in 1..Len(gens), ok \in BOOLEAN : ImagesSettle(g, ok)

ChatActions ==
    \/ \E messageText \in UserInputs : SendMessage(messageText)
    \/ StreamActions
    \/ handleStop

EditorActions ==
    \E editContent \in EditContents : handleSaveEdit(editContent)

TabActions ==
    \E docType \in DocKeys(session.documents) : handleSelectDoc(docType)

StorageActions ==
    \/ DebounceFire
    \/ flushPendingSave

VerifyActions ==
    \/ ToggleVerifier
    \/ RunVerifyClick
    \/ \E r \in 1..Len(vruns), k \in 1..Len(VerifyScripts) : VerifyRespond(r, k)
    \/ \E r \in 1..Len(vruns) : VerifyFail(r)
    \/ CancelVerify

ReportActions ==
    \/ ReVerifyClick
    \/ TimerFire
    \/ \E i \in 1..Len(verifierState.issues) : Dismiss(i)
    \/ \E i \in 1..Len(verifierState.issues) : ApplySingleFix(i)
    \/ \E f \in 1..Len(fixes), k \in 1..Len(HarmonizeScripts) : FixRespond(f, k)
    \/ \E f \in 1..Len(fixes) : FixFail(f)
    \/ ApplyAllFixes
    \/ \E a \in 1..Len(alls), k \in 1..Len(HarmonizeScripts) : AllRespond(a, k)
    \/ \E a \in 1..Len(alls) : AllFail(a)

\* The whole page.
Next ==
    \/ ChatActions
    \/ EditorActions
    \/ TabActions
    \/ StorageActions
    \/ VerifyActions
    \/ ReportActions

Spec == Init /\ [][Next]_vars

\* The whole page is too large to enumerate; the specifications below let
\* part of the page act and leave the rest of it untouched.

\* The chat and the editor.
NextChat ==
    \/ ChatActions
    \/ EditorActions

SpecChat == Init /\ [][NextChat]_vars

\* Every request for an answer settles: a generation does not read its
\* response for ever. ChatFinish is enabled only where ChatFail is, and a
\* generation takes one of the two at most once, so weak fairness of the
\* failure admits exactly the behaviours in which every read comes to its
\* end, fails or is stopped.
RequestSettles == \E g \in 1..Len(gens) : ChatFail(g)

\* Every image request is answered: generateImage resolves, with an image or
\* with an error.
ImageRequestSettles == \E g \in 1..Len(gens), ok \in BOOLEAN : ImagesSettle(g, ok)

SpecChatLive ==
    Init /\ [][NextChat]_vars /\ WF_vars(RequestSettles) /\ WF_vars(ImageRequestSettles)

\* The verifier and the editor.
NextVerifier ==
    \/ VerifyActions
    \/ ReportActions
    \/ EditorActions

SpecVerifier == Init /\ [][NextVerifier]_vars

\* Verify runs next to a chat whose Stop button is not used.
NextGrounding ==
    \/ VerifyActions
    \/ \E messageText \in UserInputs : SendMessage(messageText)
    \/ StreamActions

SpecGrounding == Init /\ [][NextGrounding]_vars

\* The chat, the document tabs and the persistence timers.
NextStorage ==
    \/ ChatActions
    \/ TabActions
    \/ StorageActions

SpecStorage == Init /\ [][NextStorage]_vars

\* One generation next to one verify and one single fix, with the editor:
\* the three writers of the store and the one taker of snapshots.
NextReconcile ==
    \/ \E messageText \in UserInputs : gens = <<>> /\ SendMessage(messageText)
    \/ \E g \in 1..Len(gens), k \in 1..Len(ChatScripts) : ChatChunk(g, k)
    \/ \E g \in 1..Len(gens) : ChatFinish(g)
    \/ \E g \in 1..Len(gens), ok \in BOOLEAN : ImagesSettle(g, ok)
    \/ EditorActions
    \/ ToggleVerifier
    \/ RunVerifyClick
    \/ \E r \in 1..Len(vruns), k \in 1..Len(VerifyScripts) : VerifyRespond(r, k)
    \/ \E i \in 1..Len(verifierState.issues) : ApplySingleFix(i)
    \/ \E f \in 1..Len(fixes), k \in 1..Len(HarmonizeScripts) : FixRespond(f, k)

SpecReconcile == Init /\ [][NextReconcile]_vars

\* ------------------------------------------------ persistence, on its own

\* The histories of a stored session: versions of two documents in the order
\* they were taken, so with timestamps that do not decrease.  A session
\* migrated from localStorage is stored as it was, untrimmed.
StoredVersions ==
    { [docType |-> KeyPRD, content |-> TextV1, timestamp |-> t, source |-> "generated"] :
          t \in 0..MaxStamp }
    \cup { [docType |-> KeyDesign, content |-> TextD1, timestamp |-> t, source |-> "harmonized"] :
               t \in 0..MaxStamp }

StoredHistories ==
    UNION { { h \in [1..n -> StoredVersions] :
                  \A i \in 1..(n - 1) : h[i].timestamp <= h[i + 1].timestamp } :
            n \in 0..MaxHistory }

\* The messages of a stored session of n messages: the turns, numbered.
StoredMessages(n) ==
    [i \in 1..n |-> [role |-> IF i % 2 = 1 THEN "user" ELSE "assistant",
                     content |-> <<ToString(i)>>]]

StoredCounts == {0, 1, MAX_MESSAGES - 1, MAX_MESSAGES, MAX_MESSAGES + 1, MaxStored}

\* The page after getSession resolved on a stored session with a history or
\* with messages.
InitStored ==
    /\ \E h \in StoredHistories, n \in StoredCounts :
        /\ h = <<>> \/ n = 0
        /\ session = [messages |-> StoredMessages(n),
                      documents |-> <<[key |-> KeyPRD, value |-> TextV1],
                                      [key |-> KeyDesign, value |-> TextD1]>>,
                      documentHistory |-> h]
    /\ storage = [db |-> session, pendingSession |-> NoSession,
                  hasPending |-> FALSE, debounceTimer |-> FALSE]
    /\ activeDoc = KeyPRD
    /\ sendCap = SendClosure(FALSE, session, INITIAL_VERIFIER_STATE)
    /\ isStreaming = FALSE
    /\ verifierState = INITIAL_VERIFIER_STATE
    /\ verifierActive = FALSE
    /\ mounts = 0
    /\ streamingContent = <<>>
    /\ pendingImages = <<>>
    /\ abortRef = 0
    /\ gens = <<>>
    /\ rvCap = NoClosure
    /\ vAbortRef = 0
    /\ applyingId = ""
    /\ vruns = <<>>
    /\ timers = <<>>
    /\ fixes = <<>>
    /\ alls = <<>>
    /\ lastVerify = <<>>
    /\ now = 0
    /\ edits = 0

\* What writes the session to the database: the editor's save at once, a
\* sent message through the debounce timer or the flush.
NextStored ==
    \/ EditorActions
    \/ \E messageText \in UserInputs : SendMessage(messageText)
    \/ StorageActions

SpecStored == InitStored /\ [][NextStored]_vars

\* ------------------------------------------------- the parser, on its own

\* What an answer of the chat service is put together from: whole blocks
\* (two of them for PRD, one with a padded label), and the fragments of one.
BlockPRD == ScriptPrdImage[1]
BlockPRDPadded ==
    <<"~", "~", "~", "d", "o", "c", ":", " ", "P", "R", "D", " ", "\n", "v", "3", "~", "~", "~">>
BlockDesign ==
    <<"~", "~", "~", "d", "o", "c", ":", "D", "e", "s", "i", "g", "n", "\n", "d", "2", "\n",
      "~", "~", "~">>

AnswerPieces ==
    { BlockPRD, BlockPRDPadded, BlockDesign, DocOpen, Fence,
      <<"P", "R", "D", "\n">>, <<"t", " ">>, <<"~", "~">>, <<"~", "d", "o", "c", ":">> }

RECURSIVE Concat(_)
Concat(pieces) == IF pieces = <<>> THEN <<>> ELSE Head(pieces) \o Concat(Tail(pieces))

AnswerTexts ==
    { Concat(pieces) : pieces \in UNION { [1..n -> AnswerPieces] : n \in 1..MaxPieces } }

\* The page in mid-generation: the first message of a session on PRD was
\* sent (sendMessage up to its first await) and the reads so far delivered
\* fullText, which is none of ChatScripts (script 0).
InitStreaming ==
    /\ \E fullText \in AnswerTexts :
        LET opened == [messages |-> <<>>,
                       documents |-> <<[key |-> KeyPRD, value |-> TextV1]>>,
                       documentHistory |-> <<>>]
            trimmed == Trim(<<"h", "i">>)
            newMessages == <<[role |-> "user", content |-> trimmed]>>
        IN  /\ session = [opened EXCEPT !.messages = newMessages]
            /\ storage = [db |-> opened, pendingSession |-> session,
                          hasPending |-> TRUE, debounceTimer |-> TRUE]
            /\ sendCap = SendClosure(TRUE, session, INITIAL_VERIFIER_STATE)
            /\ gens = <<[pc |-> "stream", script |-> 0, pos |-> 0, fullText |-> fullText,
                         newMessages |-> newMessages, imagePrompts |-> <<>>,
                         request |-> ChatRequest(
                             SendClosure(FALSE, opened, INITIAL_VERIFIER_STATE), trimmed)]>>
            /\ streamingContent = fullText
    /\ activeDoc = KeyPRD
    /\ isStreaming = TRUE
    /\ abortRef = 1
    /\ pendingImages = <<>>
    /\ verifierState = INITIAL_VERIFIER_STATE
    /\ verifierActive = FALSE
    /\ mounts = 0
    /\ rvCap = NoClosure
    /\ vAbortRef = 0
    /\ applyingId = ""
    /\ vruns = <<>>
    /\ timers = <<>>
    /\ fixes = <<>>
    /\ alls = <<>>
    /\ lastVerify = <<>>
    /\ now = 0
    /\ edits = 0

\* The generation is stopped, which runs the parser on what has arrived, or
\* its request fails.
NextParser ==
    \/ handleStop
    \/ \E g \in 1..Len(gens) : ChatFail(g)

SpecParser == InitStreaming /\ [][NextParser]_vars

\* ------------------------------------------- the verify report, on its own

\* What stands between the opener of an issues block and its closing fence:
\* an array of issues (bare, or with white space around it), JSON values that
\* are no arrays, and texts JSON.parse throws on.
ReportInteriors ==
    { <<"[R-001,R-002]">>, <<" ", "[R-003]", "\n">> }
    \cup { <<sym>> : sym \in JsonOthers }
    \cup { <<>>, <<"N", "O", "T", "_", "J", "S", "O", "N">>, <<"[R-003]", "[R-003]">> }

SummaryBlock == SummaryOpen \o <<"\n", "S", "\n">> \o Fence

\* The answers of /api/verify: no issues block, a complete one or one whose
\* closing fence is missing, followed or not by a summary block.
ReportTexts ==
    { issuesPart \o summaryPart :
        issuesPart \in {<<"o", "k", "\n">>}
                       \cup { IssuesOpen \o <<"\n">> \o interior \o Fence \o <<"\n">> :
                                  interior \in ReportInteriors }
                       \cup { IssuesOpen \o <<"\n">> \o interior : interior \in ReportInteriors },
        summaryPart \in {<<>>, SummaryBlock} }

\* The panel's render computes issues.filter(...), issues.length and
\* issues.map(...): with issues that is no array it throws, no error boundary
\* catches it, and React unmounts the page.
PanelRenders == IsArray(verifierState.issues)

\* Verify runs, their answers, Cancel, Re-Verify and Dismiss on a page that
\* is still mounted.
NextReport ==
    \/ PanelRenders /\ ToggleVerifier
    \/ PanelRenders /\ RunVerifyClick
    \/ PanelRenders /\ \E r \in 1..Len(vruns), full \in ReportTexts : VerifyRespondWith(r, full)
    \/ PanelRenders /\ CancelVerify
    \/ PanelRenders /\ ReVerifyClick
    \/ PanelRenders /\ TimerFire
    \/ PanelRenders /\ \E i \in 1..Len(verifierState.issues) : Dismiss(i)

SpecReport == Init /\ [][NextReport]_vars

\* ------------------------------------------- the event stream, on its own

\* The response of /api/chat is a stream of server-sent events; the texts of
\* the model are ASCII, so a byte is a character.
DataPrefix == <<"d", "a", "t", "a", ":", " ">>
DoneMark == <<"[", "D", "O", "N", "E", "]">>
JsonOpen == <<"{", "\"", "t", "e", "x", "t", "\"", ":", "\"">>
JsonClose == <<"\"", "}">>

\* The escapes of JSON.stringify for the characters the model's texts use.
RECURSIVE Escape(_)
Escape(text) ==
    IF text = <<>> THEN <<>>
    ELSE (CASE Head(text) = "\n" -> <<"\\", "n">>
            [] Head(text) = "\"" -> <<"\\", "\"">>
            [] Head(text) = "\\" -> <<"\\", "\\">>
            [] OTHER -> <<Head(text)>>) \o Escape(Tail(text))

\* JSON.stringify({ text })
JsonStringifyText(text) == JsonOpen \o Escape(text) \o JsonClose

\* The interior of a JSON string literal, read back: a raw quote, a raw
\* newline or a broken escape makes JSON.parse throw.
RECURSIVE Unescape(_)
Unescape(s) ==
    IF s = <<>> THEN [ok |-> TRUE, text |-> <<>>]
    ELSE IF Head(s) = "\\"
    THEN IF Len(s) >= 2 /\ s[2] \in {"n", "\"", "\\"}
         THEN LET rest == Unescape(SubSeq(s, 3, Len(s)))
              IN  [ok |-> rest.ok,
                   text |-> <<IF s[2] = "n" THEN "\n" ELSE s[2]>> \o rest.text]
         ELSE [ok |-> FALSE, text |-> <<>>]
    ELSE IF Head(s) \in {"\"", "\n"} THEN [ok |-> FALSE, text |-> <<>>]
    ELSE LET rest == Unescape(Tail(s))
         IN  [ok |-> rest.ok, text |-> <<Head(s)>> \o rest.text]

\* JSON.parse(data).text for the data of an event, ok = FALSE where it throws.
JsonParseText(data) ==
    IF /\ Len(data) >= Len(JsonOpen) + Len(JsonClose)
       /\ StartsWithAt(data, 1, JsonOpen)
       /\ StartsWithAt(data, Len(data) - Len(JsonClose) + 1, JsonClose)
    THEN Unescape(SubSeq(data, Len(JsonOpen) + 1, Len(data) - Len(JsonClose)))
    ELSE [ok |-> FALSE, text |-> <<>>]

\* chunk.split("\n")
RECURSIVE SplitLines(_)
SplitLines(chunk) ==
    LET nl == FirstAt(chunk, 1, {"\n"})
    IN  IF nl > Len(chunk) THEN <<chunk>>
        ELSE <<SubSeq(chunk, 1, nl - 1)>> \o SplitLines(SubSeq(chunk, nl + 1, Len(chunk)))

\* The for loop over the lines of one chunk: the text it adds to fullText.
RECURSIVE ConsumeLines(_)
ConsumeLines(lines) ==
    IF lines = <<>> THEN <<>>
    ELSE LET line == Head(lines)
             data == SubSeq(line, Len(DataPrefix) + 1, Len(line))
         IN  IF ~StartsWithAt(line, 1, DataPrefix) THEN ConsumeLines(Tail(lines))
             ELSE IF data = DoneMark THEN <<>>
             ELSE (IF JsonParseText(data).ok THEN JsonParseText(data).text ELSE <<>>)
                  \o ConsumeLines(Tail(lines))

ConsumeChunk(chunk) == ConsumeLines(SplitLines(chunk))

\* /api/chat: one event per chunk of the generation service that has text,
\* then the [DONE] event.
RECURSIVE SseEvents(_)
SseEvents(texts) ==
    IF texts = <<>> THEN DataPrefix \o DoneMark \o <<"\n", "\n">>
    ELSE (IF Head(texts) # <<>>
          THEN DataPrefix \o JsonStringifyText(Head(texts)) \o <<"\n", "\n">>
          ELSE <<>>) \o SseEvents(Tail(texts))

\* The answers of the generation service, as the texts of its chunks.
ServerAnswers ==
    << << <<"H", "i">>, <<"\n", "\"">> >>,
       << <<"a">>, <<>>, <<"\\">> >> >>

\* One reader.read() that delivers the next n bytes of the response to
\* answer k, however the transport cut them; gens[g].pos counts the bytes
\* read so far.
ChatRead(g, k, n) ==
    /\ gens[g].pc = "stream"
    /\ gens[g].script \in {0, k}
    /\ gens[g].pos + n <= Len(SseEvents(ServerAnswers[k]))
    /\ LET chunk == SubSeq(SseEvents(ServerAnswers[k]), gens[g].pos + 1, gens[g].pos + n)
           text == ConsumeChunk(chunk)
       IN  /\ gens' = [gens EXCEPT ![g].script = k, ![g].pos = @ + n,
                                    ![g].fullText = @ \o text]
           /\ streamingContent' = IF text # <<>> THEN gens[g].fullText \o text
                                   ELSE streamingContent
    /\ UNCHANGED <<pageVars, isStreaming, pendingImages, abortRef, sendCap, panelVars,
                   procVars, now, edits>>

\* A message is sent and its response is read, in reads of any size.
NextWire ==
    \/ \E messageText \in UserInputs : SendMessage(messageText)
    \/ \E g \in 1..Len(gens), k \in 1..Len(ServerAnswers), n \in 1..MaxRead : ChatRead(g, k, n)

SpecWire == Init /\ [][NextWire]_vars

\* ================================================================ claims

\* The entries of the in-memory history for one docType, oldest first, as
\* [content, source].
HistoryOf(docType) ==
    LET h == SelectType(session.documentHistory, docType)
    IN  [i \in 1..Len(h) |-> [content |-> h[i].content, source |-> h[i].source]]

\* C1: every step that changes the value of an existing document leaves a
\* history entry of that docType carrying the value the document had before
\* the step (the snapshot is taken before the overwrite, whichever of the
\* generation finalize, the manual edit and the harmonize apply writes).
C1_SnapshotBeforeOverwrite ==
    [][\A i \in 1..Len(session.documents) :
        LET docType == session.documents[i].key
            prior == session.documents[i].value
        IN  (DocHas(session'.documents, docType)
             /\ DocGet(session'.documents, docType) # prior)
            => \E j \in 1..Len(session'.documentHistory) :
                   /\ session'.documentHistory[j].docType = docType
                   /\ session'.documentHistory[j].content = prior]_vars

\* C2: scenario B.  PRD starts as "v1", the editor saves "v2", then one
\* verify and one single fix whose harmonize answer sets PRD to "v3": at the
\* end PRD is "v3" and the PRD history is [{v1, edited}, {v2, harmonized}].
ScenarioBEnded ==
    /\ edits = 1
    /\ gens = <<>> /\ alls = <<>>
    /\ Len(fixes) = 1 /\ fixes[1].pc = "done"
    /\ \E j \in 1..Len(session.documentHistory) :
           session.documentHistory[j] \in
               {[docType |-> KeyPRD, content |-> TextV2, timestamp |-> t,
                 source |-> "harmonized"] : t \in 0..MaxTime}
    /\ DocGet(session.documents, KeyPRD) = TextV3

C2_ScenarioB ==
    ScenarioBEnded =>
        HistoryOf(KeyPRD) = << [content |-> TextV1, source |-> "edited"],
                               [content |-> TextV2, source |-> "harmonized"] >>

\* C3: when a run the Re-Verify button started completes with its issue
\* list, dismissed and applied are both empty.
C3_ReVerifyResets ==
    [][\A r \in 1..Len(vruns), k \in 1..Len(VerifyScripts) :
        (vruns[r].reverify /\ VerifyRespond(r, k))
        => /\ verifierState'.phase = "ready"
           /\ verifierState'.dismissed = <<>>
           /\ verifierState'.applied = <<>>]_vars

\* C4: a chat request sent while the session holds a non-empty rawReport
\* carries that rawReport as verifyReport, and the server's system
\* instruction ends with it, after the block of existing documents.
C4_RequestCarriesReport ==
    [][\A messageText \in UserInputs :
        (verifierState.rawReport # <<>> /\ SendMessage(messageText))
        => LET request == gens'[Len(gens')].request
               instruction == SystemInstruction(request)
           IN  /\ request.verifyReport = verifierState.rawReport
               /\ instruction[Len(instruction)] =
                      [part |-> "verifyReport", body |-> verifierState.rawReport]]_vars

\* The Stop button pressed while the invocation it aborts is reading its stream.
StopMidStream == handleStop /\ abortRef # 0 /\ gens[abortRef].pc = "stream"

\* C5: a Stop in mid-stream finalizes the text the stopped generation has
\* accumulated (when there is any) as its normal completion would: the parser
\* runs on that text, every closed block of it is merged into the documents,
\* and one assistant message with the clean text follows the user message.
C5_StopFinalizesAccumulated ==
    [][(StopMidStream /\ gens[abortRef].fullText # <<>>)
        => LET accumulated == gens[abortRef].fullText
               parsed == parseDocumentBlocks(accumulated)
           IN  /\ session'.documents = MergeDocs(session.documents, parsed.documents)
               /\ session'.messages =
                      Append(gens[abortRef].newMessages,
                             [role |-> "assistant",
                              content |-> IF parsed.cleanText # <<>>
                                          THEN parsed.cleanText ELSE accumulated])]_vars

\* The partial stream of scenario C.
PartialSpec == ScriptSpec[1] \o ScriptSpec[2]

\* No position of the text starts a complete document block.
NoCompleteBlock(text) == \A i \in 1..Len(text) : ~DocMatchAt(text, i).ok

\* C6 as stated: a Stop on a buffer holding no complete block merges no
\* document and appends an assistant message whose content is the buffer.
C6_ContentEqualsBuffer ==
    [][(handleStop /\ streamingContent # <<>> /\ NoCompleteBlock(streamingContent))
        => /\ session'.documents = session.documents
           /\ session'.messages =
                  Append(session.messages,
                         [role |-> "assistant", content |-> streamingContent])]_vars

\* The text without its leading and trailing white space, itself when that
\* leaves nothing.
Stripped(text) ==
    LET first == {i \in 1..Len(text) : \A j \in 1..i : IsSpace(text[j])}
        last == {i \in 1..Len(text) : \A j \in i..Len(text) : IsSpace(text[j])}
    IN  IF Cardinality(first) = Len(text) THEN text
        ELSE SubSeq(text, Cardinality(first) + 1, Len(text) - Cardinality(last))

\* C6, amended: a Stop on a non-empty buffer holding no complete block merges
\* no document and appends one assistant message whose content is the buffer
\* without its leading and trailing white space (the buffer itself when it is
\* all white space); it equals the buffer only when the buffer neither starts
\* nor ends with white space.
C6_ContentIsStrippedBuffer ==
    [][(handleStop /\ streamingContent # <<>> /\ NoCompleteBlock(streamingContent))
        => /\ session'.documents = session.documents
           /\ session'.messages =
                  Append(session.messages,
                         [role |-> "assistant", content |-> Stripped(streamingContent)])
           /\ (session'.messages[Len(session'.messages)].content = streamingContent)
                  <=> (~IsSpace(streamingContent[1])
                       /\ ~IsSpace(streamingContent[Len(streamingContent)]))
                      \/ \A j \in 1..Len(streamingContent) : IsSpace(streamingContent[j])]_vars

\* Scenario C has run: the one generation was stopped after the partial
\* stream, its message is the stripped partial text and no Tech Spec exists.
C6_Witness ==
    /\ Len(gens) = 1 /\ gens[1].pc = "done" /\ ~isStreaming
    /\ Len(session.messages) = 2
    /\ session.messages[2] = [role |-> "assistant", content |-> Stripped(PartialSpec)]
    /\ session.messages[2].content # PartialSpec
    /\ ~DocHas(session.documents, KeyTechSpec)

\* C7: the step that ends an earlier invocation of sendMessage while a later
\* one is in flight leaves the streaming flag, the streaming buffer, the
\* pending images and the abort controller alone.
C7_NoClobber ==
    [][\A g \in 1..Len(gens) :
        (/\ gens[g].pc # "done" /\ gens'[g].pc = "done"
         /\ \E n \in (g + 1)..Len(gens) : gens'[n].pc # "done")
        => /\ isStreaming' = isStreaming
           /\ streamingContent' = streamingContent
           /\ pendingImages' = pendingImages
           /\ abortRef' = abortRef]_vars

\* The transitions of the phase the state machine lists.
ListedTransitions ==
    { <<"idle", "verifying">>, <<"verifying", "ready">>, <<"ready", "idle">>,
      <<"ready", "verifying">>, <<"ready", "harmonizing">>,
      <<"harmonizing", "done">>, <<"harmonizing", "ready">> }

\* C8: every change of verifierState.phase is one of the listed transitions.
C8_PhaseTransitions ==
    [][verifierState'.phase # verifierState.phase
        => <<verifierState.phase, verifierState'.phase>> \in ListedTransitions]_vars

\* C9: when the harmonize request of an apply-all fails, the phase is ready,
\* the issues are the list the last verify computed, applied gains no id and
\* the documents stay as they are.
C9_FailedApplyAll ==
    [][\A a \in 1..Len(alls) :
        AllFail(a)
        => /\ verifierState'.phase = "ready"
           /\ verifierState'.issues = lastVerify
           /\ SeqToSet(verifierState'.applied) \subseteq SeqToSet(verifierState.applied)
           /\ session'.documents = session.documents]_vars

\* An apply action starts: applySingleFix of a card, or applyAllFixes.
ApplyStarts == ApplyAllFixes \/ \E i \in 1..Len(verifierState.issues) : ApplySingleFix(i)

C11_SnapshotIsValueBeforeNextWrite ==
    [][LET before == session.documentHistory
           after == session'.documentHistory
       IN  /\ Len(after) >= Len(before)
           /\ SubSeq(after, 1, Len(before)) = before
           /\ \A j \in (Len(before) + 1)..Len(after) :
                  /\ DocHas(session.documents, after[j].docType)
                  /\ after[j].content = DocGet(session.documents, after[j].docType)
                  /\ after[j].content = DocGet(session'.documents, after[j].docType)]_vars

\* A generation completed between the snapshot of a single fix and its
\* merge: the snapshot of PRD holds "v1", the generation wrote "v2" (it
\* created no Tech Spec, so it was the PRD answer), the merge wrote "v3".
C11_Witness ==
    /\ edits = 0
    /\ Len(fixes) = 1 /\ fixes[1].pc = "done"
    /\ Len(gens) = 1 /\ gens[1].pc # "stream" /\ Len(session.messages) = 2
    /\ ~DocHas(session.documents, KeyTechSpec)
    /\ DocGet(session.documents, KeyPRD) = TextV3
    /\ HistoryOf(KeyPRD) = << [content |-> TextV1, source |-> "harmonized"] >>

\* C12: no verify request is on its way with fewer than two documents: the
\* document set every pending run sends has at least two keys, and while the
\* phase is verifying the store holds at least two documents.
C12_VerifyNeedsTwoDocuments ==
    /\ \A r \in 1..Len(vruns) :
           vruns[r].pc = "pending" => Cardinality(DocKeys(vruns[r].cap.documents)) >= 2
    /\ verifierState.phase = "verifying" => Cardinality(DocKeys(session.documents)) >= 2

\* A session opened on the single document PRD got its second document from
\* a generation, and a verify run on the two is in flight.
C12_Witness ==
    /\ verifierState.phase = "verifying"
    /\ Len(vruns) = 1 /\ vruns[1].pc = "pending"
    /\ DocKeys(vruns[1].cap.documents) = {KeyPRD, KeyTechSpec}
    /\ ~DocHas(session.documents, KeyDesign)

\* after is before with every entry of newDocs written over it: each key of
\* newDocs holds the value newDocs gives it, every other key of before keeps
\* its value, and there are no further keys.
MergedInto(before, newDocs, after) ==
    /\ DocKeys(after) = DocKeys(before) \cup DocKeys(newDocs)
    /\ Len(after) = Cardinality(DocKeys(after))
    /\ \A i \in 1..Len(newDocs) : DocGet(after, newDocs[i].key) = newDocs[i].value
    /\ \A i \in 1..Len(before) :
           before[i].key \notin DocKeys(newDocs)
           => DocGet(after, before[i].key) = before[i].value

\* C13: a merge sets every key of newDocs to the value newDocs gives it and
\* leaves every other key, the messages and the history as they are.  The
\* harmonize answers call handleDocumentsUpdate alone; the finalize of a
\* generation calls it after handleMessagesUpdate, which has set the messages
\* to the generation's own list.
C13_MergeFrame ==
    [][/\ \A f \in 1..Len(fixes), k \in 1..Len(HarmonizeScripts) :
            LET newDocs == parseDocumentBlocks(HarmonizeScripts[k]).documents
            IN  (FixRespond(f, k) /\ Len(newDocs) > 0)
                => /\ MergedInto(session.documents, newDocs, session'.documents)
                   /\ session'.messages = session.messages
                   /\ session'.documentHistory = session.documentHistory
       /\ \A g \in 1..Len(gens) :
            LET newDocs == parseDocumentBlocks(gens[g].fullText).documents
            IN  (ChatFinish(g) /\ Len(newDocs) > 0)
                => /\ MergedInto(session.documents, newDocs, session'.documents)
                   /\ session'.messages =
                          Append(gens[g].newMessages, AssistantMessage(gens[g].fullText))
                   /\ session'.documentHistory = session.documentHistory]_vars

\* Both kinds of merge have happened: a generation added Tech Spec to the
\* store, a harmonize answer overwrote PRD, and Design is as it was.
C13_Witness ==
    /\ Len(fixes) = 1 /\ fixes[1].pc = "done"
    /\ Len(session.documents) = 3
    /\ DocGet(session.documents, KeyPRD) = TextV3
    /\ DocGet(session.documents, KeyDesign) = TextD1
    /\ DocHas(session.documents, KeyTechSpec)
    /\ Len(session.documentHistory) >= 2

\* C14: the key set of the documents never shrinks: every docType of the
\* store is still in the store after any step (a generation finalize, a
\* cancellation, a manual edit, a snapshot, a verify, a harmonize apply).
C14_KeysNeverShrink ==
    [][DocKeys(session.documents) \subseteq DocKeys(session'.documents)]_vars

\* The store grew from two keys to three and then went through a snapshot
\* and a harmonize merge.
C14_Witness ==
    /\ DocKeys(session.documents) = {KeyPRD, KeyDesign, KeyTechSpec}
    /\ Len(fixes) = 1 /\ fixes[1].pc = "done"
    /\ DocGet(session.documents, KeyPRD) = TextV3
    /\ edits = 1

\* How many times e occurs in the sequence s.
Occurrences(s, e) == Cardinality({i \in 1..Len(s) : s[i] = e})

\* out is what the claim says of the history saveSession stores for the
\* input history in: per docType min(3, n) of its n entries, none of them
\* older than an entry that was left out, and the whole in ascending order
\* of timestamp.
IsTrimmedHistory(in, out) ==
    /\ \A e \in SeqToSet(out) : Occurrences(out, e) <= Occurrences(in, e)
    /\ \A k \in {in[i].docType : i \in 1..Len(in)} :
           LET n == Cardinality({i \in 1..Len(in) : in[i].docType = k})
               kept == {i \in 1..Len(out) : out[i].docType = k}
           IN  /\ Cardinality(kept) = (IF n < 3 THEN n ELSE 3)
               /\ \A i \in 1..Len(in), j \in kept :
                      (in[i].docType = k /\ Occurrences(out, in[i]) < Occurrences(in, in[i]))
                      => in[i].timestamp <= out[j].timestamp
    /\ \A i \in 1..(Len(out) - 1) : out[i].timestamp <= out[i + 1].timestamp

\* The step writes the session input to the database: the editor's save
\* writes the session it has just updated, the debounce timer and the flush
\* write the pending session.
Writes(input) ==
    \/ /\ \E editContent \in EditContents : handleSaveEdit(editContent)
       /\ input = session'
    \/ /\ DebounceFire \/ flushPendingSave
       /\ storage.hasPending
       /\ input = storage.pendingSession

\* C15: the history saveSession stores has, per docType, at most 3 entries,
\* the ones with the greatest timestamps of the input, and is in ascending
\* order of timestamp.
C15_HistoryTrimmed ==
    [][\A input \in {session', storage.pendingSession} :
        Writes(input) => IsTrimmedHistory(input.documentHistory,
                                          storage'.db.documentHistory)]_vars

\* A session with 5 versions of PRD, not all of one timestamp, was saved: 3
\* of them are in the database.
C15_Witness ==
    /\ edits = 1
    /\ Len(session.documentHistory) = 5
    /\ \A i \in 1..5 : session.documentHistory[i].docType = KeyPRD
    /\ session.documentHistory[1].timestamp < session.documentHistory[5].timestamp
    /\ Len(storage.db.documentHistory) = 3
    /\ storage.db.documentHistory = SubSeq(session.documentHistory, 3, 5)

\* C16: the messages saveSession stores are the last min(n, 200) of the n
\* messages of the input, in their order.
C16_MessagesCapped ==
    [][\A input \in {session', storage.pendingSession} :
        Writes(input)
        => LET n == Len(input.messages)
               m == IF n < 200 THEN n ELSE 200
           IN  /\ Len(storage'.db.messages) = m
               /\ storage'.db.messages = SubSeq(input.messages, n - m + 1, n)]_vars

\* A session of 250 messages was saved: the database holds the last 200.
C16_Witness ==
    /\ edits = 1
    /\ Len(session.messages) = 250
    /\ Len(storage.db.messages) = 200
    /\ storage.db.messages[1] = session.messages[51]
    /\ storage.db.messages[200] = session.messages[250]

\* C17: when the request of a generation fails in transport (before or after
\* some text arrived), the messages become the messages as they are, which
\* end with the user message, followed by one assistant message with the
\* connection error; the documents and the history stay as they are, and no
\* request is sent again.
C17_TransportFailure ==
    [][\A g \in 1..Len(gens) :
        ChatFail(g)
        => /\ session.messages # <<>>
           /\ session.messages[Len(session.messages)].role = "user"
           /\ session'.messages =
                  Append(session.messages, [role |-> "assistant", content |-> ConnectionError])
           /\ session'.documents = session.documents
           /\ session'.documentHistory = session.documentHistory
           /\ Len(gens') = Len(gens)
           /\ \A n \in 1..Len(gens) : gens'[n].pc # "done" => gens'[n] = gens[n]]_vars

\* C18: the streaming indicator does not stay on: whenever isStreaming is
\* true it is eventually false, and every invocation of sendMessage comes to
\* its end, by completion, by a transport error or by cancellation, provided
\* every network request settles.
C18_StreamingClears ==
    /\ isStreaming ~> ~isStreaming
    /\ \A g \in 1..MaxGens :
           (Len(gens) >= g) ~> (Len(gens) >= g /\ gens[g].pc = "done" /\ ~isStreaming)

\* Two invocations have ended, one of them by a transport error, the other
\* after its image requests were answered, and the indicator is off.
C18_Witness ==
    /\ ~isStreaming
    /\ Len(gens) >= 2
    /\ \A g \in 1..Len(gens) : gens[g].pc = "done"
    /\ pendingImages # <<>>
    /\ \A i \in 1..Len(pendingImages) : pendingImages[i].status # "loading"
    /\ \E i \in 1..Len(session.messages) : session.messages[i].content = ConnectionError

\* The opener ~~~doc: occurs in the text.
HasDocOpen(text) == \E i \in 1..Len(text) : StartsWithAt(text, i, DocOpen)

\* C19 as stated: whatever the text, the cleanText the parser returns for it,
\* and with it the message a finalize makes of a non-empty cleanText, holds no
\* ~~~doc: opener.
C19_CleanTextHasNoOpener ==
    [][(handleStop /\ streamingContent # <<>>)
        => LET cleanText == parseDocumentBlocks(streamingContent).cleanText
           IN  /\ ~HasDocOpen(cleanText)
               /\ cleanText # <<>>
                  => ~HasDocOpen(session'.messages[Len(session'.messages)].content)]_vars

\* Every ~ of the text lies in a complete block, as the left-to-right scan
\* finds the blocks.
TildesInBlocksOnly(text) ==
    LET ms == DocMatches(text, 1)
    IN  \A i \in 1..Len(text) :
            text[i] = "~" => \E j \in 1..Len(ms) : ms[j].start <= i /\ i < ms[j].next

\* C19, amended: the cleanText of a text whose tildes all lie in complete
\* blocks holds no ~~~doc: opener (and no tilde at all), and so does the
\* message a finalize makes of it when it is not empty.
C19_CleanTextOfClosedBlocks ==
    [][(handleStop /\ streamingContent # <<>> /\ TildesInBlocksOnly(streamingContent))
        => LET cleanText == parseDocumentBlocks(streamingContent).cleanText
           IN  /\ ~HasDocOpen(cleanText)
               /\ \A i \in 1..Len(cleanText) : cleanText[i] # "~"
               /\ cleanText # <<>>
                  => session'.messages[Len(session'.messages)].content = cleanText]_vars

\* A generation was stopped on "t " followed by a complete PRD block: the
\* block went into the store and the message is the text without it.
C19_Witness ==
    /\ Len(gens) = 1 /\ gens[1].pc = "done" /\ ~isStreaming
    /\ Len(session.messages) = 2
    /\ session.messages[2] = [role |-> "assistant", content |-> <<"t">>]
    /\ DocGet(session.documents, KeyPRD) = TextV2

\* C20: when the text holds several complete blocks whose trimmed labels are
\* equal, the documents the parser returns, and the store after the merge,
\* hold for that label the trimmed content of the last of them.
C20_LastBlockWins ==
    [][(handleStop /\ streamingContent # <<>>)
        => LET ms == DocMatches(streamingContent, 1)
               documents == parseDocumentBlocks(streamingContent).documents
           IN  \A i \in 1..Len(ms) :
                   (/\ \E j \in 1..(i - 1) : Trim(ms[j].label) = Trim(ms[i].label)
                    /\ \A j \in (i + 1)..Len(ms) : Trim(ms[j].label) # Trim(ms[i].label))
                   => /\ DocHas(documents, Trim(ms[i].label))
                      /\ DocGet(documents, Trim(ms[i].label)) = Trim(ms[i].content)
                      /\ DocGet(session'.documents, Trim(ms[i].label)) = Trim(ms[i].content)]_vars

\* A generation was stopped on the PRD block with "v2" followed by the PRD
\* block with "v3" (cleanText is empty, so the message is the text itself):
\* the store holds "v3".
C20_Witness ==
    /\ Len(gens) = 1 /\ gens[1].pc = "done" /\ ~isStreaming
    /\ Len(session.messages) = 2
    /\ session.messages[2].content = BlockPRD \o BlockPRDPadded
    /\ session.documents = <<[key |-> KeyPRD, value |-> TextV3]>>

\* The blocks the parser extracts from a text, in order of appearance.
BlocksOf(text) ==
    LET ms == DocMatches(text, 1)
    IN  [i \in 1..Len(ms) |-> [label |-> Trim(ms[i].label), content |-> Trim(ms[i].content)]]

IsPrefixOf(s, t) == Len(s) <= Len(t) /\ s = SubSeq(t, 1, Len(s))

\* C21: the parser is streaming-tolerant.  For the text T a stop parses and
\* every prefix P of T, the blocks of P are the first blocks of T, a block of
\* P ends within P, and the keys of P's documents are keys of T's documents
\* and of the store after the merge.
C21_StreamingTolerant ==
    [][(handleStop /\ streamingContent # <<>>)
        => \A n \in 0..Len(streamingContent) :
               LET prefix == SubSeq(streamingContent, 1, n)
                   ms == DocMatches(prefix, 1)
                   keys == DocKeys(parseDocumentBlocks(prefix).documents)
               IN  /\ IsPrefixOf(BlocksOf(prefix), BlocksOf(streamingContent))
                   /\ \A i \in 1..Len(ms) : ms[i].next <= n + 1
                   /\ keys \subseteq DocKeys(parseDocumentBlocks(streamingContent).documents)
                   /\ keys \subseteq DocKeys(session'.documents)]_vars

\* A generation was stopped on the PRD block, an open Design block and the
\* fence that closes it: the prefix without that fence holds one block, the
\* text two, and the store has both keys.
C21_Witness ==
    /\ Len(gens) = 1 /\ gens[1].pc = "done" /\ ~isStreaming
    /\ Len(session.messages) = 2
    /\ session.messages[2].content = BlockPRD \o BlockDesign
    /\ Len(BlocksOf(SubSeq(BlockPRD \o BlockDesign, 1, Len(BlockPRD) + Len(BlockDesign) - 1))) = 1
    /\ DocKeys(session.documents) = {KeyPRD, KeyDesign}

HasBlock(text, open) == BlockMatch(text, open).ok

\* C22: a verify answer with no issues block, or with one whose interior
\* JSON.parse throws on, gives the empty issue list; an answer with no
\* summary block gives the empty summary; in each case the run ends in
\* phase ready with the answer as rawReport, not in the failure branch.
C22_MalformedReport ==
    [][\A r \in 1..Len(vruns), full \in ReportTexts :
        VerifyRespondWith(r, full)
        => /\ (~HasBlock(full, IssuesOpen)
                \/ ~JsonParses(BlockMatch(full, IssuesOpen).interior))
               => /\ verifierState'.issues = <<>>
                  /\ verifierState'.phase = "ready"
                  /\ verifierState'.rawReport = full
                  /\ verifierState'.summary # VerificationFailed
           /\ ~HasBlock(full, SummaryOpen)
               => /\ verifierState'.summary = <<>>
                  /\ verifierState'.phase = "ready"]_vars

\* A run was answered with ~~~issues NOT_JSON ~~~ and no summary block: the
\* state is ready with no issue and no summary.
C22_Witness ==
    /\ verifierState.phase = "ready"
    /\ verifierState.rawReport =
           IssuesOpen \o <<"\n", "N", "O", "T", "_", "J", "S", "O", "N">> \o Fence \o <<"\n">>
    /\ verifierState.issues = <<>>
    /\ verifierState.summary = <<>>
    /\ \E r \in 1..Len(vruns) : vruns[r].pc = "done"

\* C29: verifierState.issues is an array in every reachable state: whatever
\* the interior of the issues block of a verify answer, what
\* parseIssuesFromResponse returns for it, and runVerify stores, is an array.
C29_IssuesIsArray == IsArray(verifierState.issues)

\* C24: persistence never regresses.  Whenever no debounced payload is
\* pending and no debounce timer is armed, the stored session is the trimmed
\* in-memory session: in particular it holds the documents a finalize merged.
C24_StoredIsLatest ==
    (~storage.hasPending /\ ~storage.debounceTimer) => storage.db = trimSession(session)

\* C23: the debounce holds one pending payload.  A pending payload has its
\* timer armed; a call of debouncedSaveSession (made by every step that
\* changes the messages) makes the updated session of that call the payload,
\* replacing an earlier one, and does not write it (what such a step stores,
\* if anything, is the session of an immediate save); when the timer
\* fires on a pending payload, that payload, trimmed, is what is stored, and
\* no payload and no timer remain.
C23_DebounceCoalesces ==
    [][/\ storage'.hasPending => storage'.debounceTimer
       /\ session'.messages # session.messages
          => /\ storage'.hasPending
             /\ storage'.pendingSession = [session' EXCEPT !.documents = session.documents]
             /\ storage'.db \in {storage.db, trimSession(session')}
       /\ (DebounceFire /\ storage.hasPending)
          => /\ storage'.db = trimSession(storage.pendingSession)
             /\ ~storage'.hasPending
             /\ ~storage'.debounceTimer]_vars

\* A message was sent and its request failed, two calls of
\* debouncedSaveSession, and the timer has fired: the stored session has both
\* messages and nothing is pending.
C23_Witness ==
    /\ ~storage.hasPending /\ ~storage.debounceTimer
    /\ Len(gens) = 1 /\ gens[1].pc = "done"
    /\ Len(storage.db.messages) = 2
    /\ storage.db.messages[2].content = ConnectionError
    /\ storage.db = trimSession(session)

\* dismissed and applied lose nothing in the step.
SetsKept ==
    /\ SeqToSet(verifierState.dismissed) \subseteq SeqToSet(verifierState'.dismissed)
    /\ SeqToSet(verifierState.applied) \subseteq SeqToSet(verifierState'.applied)

\* C25: the completion of a harmonize request, of a single fix or of
\* apply-all, loses no update of dismissed and applied: what was dismissed
\* or applied while the request was in flight still is afterwards, and the
\* request's own issues are applied.
C25_NoLostUpdate ==
    [][/\ \A f \in 1..Len(fixes), k \in 1..Len(HarmonizeScripts) :
            FixRespond(f, k)
            => SetsKept /\ fixes[f].issue \in SeqToSet(verifierState'.applied)
       /\ \A a \in 1..Len(alls), k \in 1..Len(HarmonizeScripts) :
            AllRespond(a, k)
            => SetsKept /\ SeqToSet(alls[a].remaining) \subseteq SeqToSet(verifierState'.applied)]_vars

AssistantCount(messages) ==
    Cardinality({i \in 1..Len(messages) : messages[i].role = "assistant"})

\* C26: a generation round-trip appends at most one assistant message: the
\* conversation never holds more assistant messages than sendMessage was
\* invoked, however the end of the stream, the Stop button and the wait for
\* the images interleave.
C26_OneMessagePerRoundTrip == AssistantCount(session.messages) <= Len(gens)

\* C27: when the whole response has been read, whatever the sizes of the
\* reads, fullText is the concatenation, in order, of the texts of the events
\* the server emitted before [DONE].
C27_AccumulatedIsConcatenation ==
    \A g \in 1..Len(gens) :
        (/\ gens[g].pc = "stream"
         /\ gens[g].script # 0
         /\ gens[g].pos = Len(SseEvents(ServerAnswers[gens[g].script])))
        => gens[g].fullText = Concat(ServerAnswers[gens[g].script])

\* C28: in every reachable state whose phase is idle, issues, summary,
\* dismissed, applied and rawReport are empty: the state is
\* INITIAL_VERIFIER_STATE, also after a verify or re-verify was cancelled.
C28_IdleIsInitial ==
    verifierState.phase = "idle" => verifierState = INITIAL_VERIFIER_STATE

\* The ids of the issues of a state that are neither dismissed nor applied
\* and are not of severity info.
OutstandingIds(vs) ==
    {vs.issues[i].id : i \in {j \in 1..Len(vs.issues) :
        /\ vs.issues[j].id \notin SeqToSet(vs.dismissed) \cup SeqToSet(vs.applied)
        /\ vs.issues[j].severity # "info"}}

\* The ids of the issues of severity info that are not applied.
UnappliedInfoIds(vs) ==
    {vs.issues[i].id : i \in {j \in 1..Len(vs.issues) :
        /\ vs.issues[j].id \notin SeqToSet(vs.applied)
        /\ vs.issues[j].severity = "info"}}

\* C30: when an apply-all succeeds, applied holds every issue that at the
\* invocation was neither dismissed nor applied and not of severity info,
\* holds no issue of severity info that was not applied at the invocation,
\* and the phase is done; in a state with no such issue no apply-all starts:
\* no request is added and no step is the one that takes the snapshot and
\* sets the phase harmonizing.
C30_ApplyAllAppliesOutstanding ==
    [][/\ \A a \in 1..Len(alls), k \in 1..Len(HarmonizeScripts) :
            AllRespond(a, k)
            => /\ OutstandingIds(alls[a].vs) \subseteq SeqToSet(verifierState'.applied)
               /\ UnappliedInfoIds(alls[a].vs) \cap SeqToSet(verifierState'.applied) = {}
               /\ verifierState'.phase = "done"
       /\ OutstandingIds(verifierState) = {}
            => /\ Len(alls') = Len(alls)
               /\ ~ApplyAllFixes]_vars

\* An apply-all has succeeded on a report with an issue of severity info
\* that was never applied.
C30_Witness ==
    /\ verifierState.phase = "done"
    /\ OutstandingIds(verifierState) = {}
    /\ Len(verifierState.applied) > 0
    /\ UnappliedInfoIds(verifierState) # {}

====
